---- MODULE Spec2Model ----
(***************************************************************************)
(* emojicut-qwen.  The sticker-sheet segmentation engine of                *)
(* src/services/imageProcessor.ts (isBackground, extractStickerFromRect,   *)
(* processStickerSheet), the handlers of src/App.tsx around it             *)
(* (processFile, runAiNaming, handleManualCrop, handleDownloadAll,         *)
(* handleReset) and generateStickerName of src/services/qwenService.ts.    *)
(* Pixel buffers are functions from the row-major pixel index to an RGBA   *)
(* tuple; 0/1 maps (binaryMap, currentMap, tempMap, visited,               *)
(* globalClaimed) are the sets of indices holding 1.                       *)
(***************************************************************************)
EXTENDS Integers, Sequences, FiniteSets, TLC

\* ---------------------------------------------------------------- bounds
\* Size of the sheets the model feeds to the pipeline.
ImgW == 59
ImgH == 17
\* Size of the sources the model feeds to single extractions.
CropW == 7
CropH == 5

\* ------------------------------------------------------ program constants
bgThreshold == 240
alphaFloor == 20
erosionPasses == 6
seedMergeDist == 30
tightThreshold == 240
stickerPadding == 16
keyThreshold == 250
strokeWidth == 6
sortWeight == 1000

\* Grid Fallback of the specification (no code for it under src/).
GridFloor == 10
GridCols == 4
GridRows == 4
GridMargin == 10

\* ---------------------------------------------------------------- helpers
Max2(a, b) == IF a >= b THEN a ELSE b
Min2(a, b) == IF a <= b THEN a ELSE b
Max3(a, b, c) == Max2(a, Max2(b, c))
SetMin(S) == CHOOSE m \in S : \A n \in S : m <= n
SetMax(S) == CHOOSE m \in S : \A n \in S : m >= n

\* ---------------------------------------------------------------- pixels
White == <<255, 255, 255, 255>>
Black == <<0, 0, 0, 255>>
Clear == <<0, 0, 0, 0>>
NearWhite == <<245, 245, 245, 255>>
Dim19 == <<0, 0, 0, 19>>
Faint == <<0, 0, 0, 20>>
Pale == <<255, 255, 236, 255>>

BgColours == {White, Clear, NearWhite, Dim19}
InkColours == {Black, Faint, Pale}

\* isBackground(r, g, b, a, threshold)
isBackgroundAlphaUpTo20(r, g, b, a, threshold) ==
    IF a <= alphaFloor THEN TRUE
    ELSE r > threshold /\ g > threshold /\ b > threshold

isBackgroundMutRGB(r, g, b, a, threshold) ==
    IF a < alphaFloor THEN TRUE
    ELSE r > threshold /\ g > threshold /\ b < threshold

isBackground(r, g, b, a, threshold) ==
    IF a < alphaFloor THEN TRUE
    ELSE r > threshold /\ g > threshold /\ b > threshold

\* ---------------------------------------------------------------- sheets
\* A sheet is a canvas of one colour with filled rectangles drawn in order.
Box(x0, y0, w, h, c) == [x0 |-> x0, y0 |-> y0, w |-> w, h |-> h, c |-> c]

InBox(b, x, y) == /\ b.x0 <= x /\ x < b.x0 + b.w
                  /\ b.y0 <= y /\ y < b.y0 + b.h

RECURSIVE Paint(_, _, _, _)
Paint(bg, boxes, x, y) ==
    IF boxes = <<>> THEN bg
    ELSE LET last == boxes[Len(boxes)]
         IN  IF InBox(last, x, y) THEN last.c
             ELSE Paint(bg, SubSeq(boxes, 1, Len(boxes) - 1), x, y)

Render(sheet, w, h) ==
    [i \in 0 .. (w * h - 1) |-> Paint(sheet.bg, sheet.boxes, i % w, i \div w)]

\* ------------------------------------------------- processStickerSheet
\* Binary map: 1 iff NOT background at bgThreshold.
BinaryMapOf(data, w, h) ==
    {i \in 0 .. (w * h - 1) :
        ~isBackground(data[i][1], data[i][2], data[i][3], data[i][4], bgThreshold)}

\* The pixels one erosion pass writes: y in 1..h-2, x in 1..w-2.
Interior(w, h) ==
    {i \in 0 .. (w * h - 1) :
        /\ i % w >= 1 /\ i % w < w - 1
        /\ i \div w >= 1 /\ i \div w < h - 1}

\* tempMap after one pass over currentMap: interior entries are rewritten,
\* the others keep what tempMap held.
ErodePassNoDown(cur, tmp, w, h) ==
    (tmp \ Interior(w, h)) \cup
    {i \in Interior(w, h) :
        /\ i \in cur
        /\ ~(\/ (i - 1) \notin cur \/ (i + 1) \notin cur
             \/ (i - w) \notin cur)}

ErodePassAnyNeighbour(cur, tmp, w, h) ==
    (tmp \ Interior(w, h)) \cup
    {i \in Interior(w, h) :
        \/ (i - 1) \in cur \/ (i + 1) \in cur
        \/ (i - w) \in cur \/ (i + w) \in cur}

ErodePass(cur, tmp, w, h) ==
    (tmp \ Interior(w, h)) \cup
    {i \in Interior(w, h) :
        /\ i \in cur
        /\ ~(\/ (i - 1) \notin cur \/ (i + 1) \notin cur
             \/ (i - w) \notin cur \/ (i + w) \notin cur)}

\* Neighbour indices as the code computes them: plain index arithmetic,
\* kept when 0 <= n < width * height.
Neighbors4(curr, w, h) ==
    {n \in {curr - 1, curr + 1, curr - w, curr + w} : n >= 0 /\ n < w * h}

Neighbors8(curr, w, h) ==
    {n \in {curr - 1, curr + 1, curr - w, curr + w,
            curr - w - 1, curr - w + 1, curr + w - 1, curr + w + 1} :
        n >= 0 /\ n < w * h}

Neighbors(curr, conn, w, h) ==
    IF conn = 4 THEN Neighbors4(curr, w, h) ELSE Neighbors8(curr, w, h)

\* Stack flood fill: every pixel popped, given the pixels already marked
\* (seen) and the pixels a push is allowed into.
RECURSIVE Flood(_, _, _, _, _, _)
Flood(frontier, seen, allowed, conn, w, h) ==
    LET next == ((UNION {Neighbors(p, conn, w, h) : p \in frontier})
                    \cap allowed) \ seen
    IN  IF next = {} THEN seen
        ELSE Flood(next, seen \cup next, allowed, conn, w, h)

\* The same traversals step by step, as the code runs them: an explicit
\* stack popped from its end, the neighbours of the popped pixel tested in
\* array order, a neighbour marked at the moment it is pushed.  The value
\* is the sequence of all pushes, the start pixel's first.
Offsets4(w) == <<-1, 1, -w, w>>
Offsets8(w) == <<-1, 1, -w, w, -w - 1, -w + 1, w - 1, w + 1>>

\* The neighbours of curr that get pushed, in order: in range, allowed,
\* not marked, and not already pushed earlier in this same loop.
RECURSIVE Pushed(_, _, _, _, _, _)
Pushed(curr, offs, k, marked, allowed, size) ==
    IF k > Len(offs) THEN <<>>
    ELSE LET n == curr + offs[k]
         IN  IF n >= 0 /\ n < size /\ n \in allowed /\ n \notin marked
             THEN <<n>> \o Pushed(curr, offs, k + 1, marked \cup {n}, allowed, size)
             ELSE Pushed(curr, offs, k + 1, marked, allowed, size)

SeqRange(s) == {s[k] : k \in DOMAIN s}

\* One pass of `while (stack.length)`: pop, push the neighbours that pass
\* the test.  A fill is [stack, marked, log].
PopStepMarkOnPop(s, allowed, offs, size) ==
    LET curr == s.stack[Len(s.stack)]
        new == IF curr \in s.marked /\ Len(s.log) > 1 THEN <<>>
               ELSE Pushed(curr, offs, 1, s.marked \cup {curr}, allowed, size)
    IN  [stack |-> SubSeq(s.stack, 1, Len(s.stack) - 1) \o new,
         marked |-> s.marked \cup {curr},
         log |-> s.log \o new]

PopStep(s, allowed, offs, size) ==
    LET curr == s.stack[Len(s.stack)]
        new == Pushed(curr, offs, 1, s.marked, allowed, size)
    IN  [stack |-> SubSeq(s.stack, 1, Len(s.stack) - 1) \o new,
         marked |-> s.marked \cup SeqRange(new),
         log |-> s.log \o new]

\* Up to n passes of the loop from fill s (it stops on an empty stack).
RECURSIVE Pops(_, _, _, _, _)
Pops(s, n, allowed, offs, size) ==
    IF s.stack = <<>> \/ n = 0 THEN s
    ELSE IF n = 1 THEN PopStep(s, allowed, offs, size)
    ELSE Pops(Pops(s, n \div 2, allowed, offs, size), n - (n \div 2), allowed, offs, size)

\* Labeling fill from pixel i (visited[i] = 1; stack = [i]) and
\* region-growing fill from startIdx (stack = [startIdx];
\* globalClaimed[startIdx] = 1), run for at most n passes.
LabelFill(i, cur, vis, w, h, n) ==
    Pops([stack |-> <<i>>, marked |-> vis \cup {i}, log |-> <<i>>], n,
         cur, Offsets4(w), w * h)

GrowFill(start, bmap, claimed, w, h, n) ==
    Pops([stack |-> <<start>>, marked |-> claimed \cup {start}, log |-> <<start>>], n,
         bmap, Offsets8(w), w * h)

\* Running min/max of cx = curr % width, cy = floor(curr / width).
BoundsOf(pixels, w) ==
    [minX |-> SetMin({p % w : p \in pixels}),
     maxX |-> SetMax({p % w : p \in pixels}),
     minY |-> SetMin({p \div w : p \in pixels}),
     maxY |-> SetMax({p \div w : p \in pixels})]

xDistOf(a, b) == Max3(0, a.minX - b.maxX, b.minX - a.maxX)
yDistOf(a, b) == Max3(0, a.minY - b.maxY, b.minY - a.maxY)

CloseSeeds(newSeed, existing) ==
    xDistOf(newSeed, existing) < seedMergeDist /\ yDistOf(newSeed, existing) < seedMergeDist

UnionRect(a, b) ==
    [minX |-> Min2(a.minX, b.minX), maxX |-> Max2(a.maxX, b.maxX),
     minY |-> Min2(a.minY, b.minY), maxY |-> Max2(a.maxY, b.maxY)]

\* Inline merge: the first close existing seed absorbs newSeed, else push.
MergeSeed(seedList, newSeed) ==
    LET hits == {s \in 1 .. Len(seedList) : CloseSeeds(newSeed, seedList[s])}
    IN  IF hits = {} THEN Append(seedList, newSeed)
        ELSE [seedList EXCEPT ![SetMin(hits)] = UnionRect(seedList[SetMin(hits)], newSeed)]

\* Start pixel of a seed: centre of its bounding box.
CenterX(seed) == (seed.minX + seed.maxX) \div 2
CenterY(seed) == (seed.minY + seed.maxY) \div 2
StartIdx(seed, w) == CenterY(seed) * w + CenterX(seed)

\* Pixels popped while growing one region from start: start is claimed
\* without a test, its neighbours only when foreground and unclaimed.
GrowFrom(start, bmap, claimed, w, h) ==
    Flood({start}, {start}, bmap \ claimed, 8, w, h)

\* finalRects.sort((a, b) => (a.minY - b.minY) * 1000 + (a.minX - b.minX))
SortCmp(a, b) == (a.minY - b.minY) * sortWeight + (a.minX - b.minX)

RECURSIVE InsertRect(_, _)
InsertRect(sorted, r) ==
    IF sorted = <<>> \/ SortCmp(sorted[Len(sorted)], r) <= 0
    THEN Append(sorted, r)
    ELSE Append(InsertRect(SubSeq(sorted, 1, Len(sorted) - 1), r), sorted[Len(sorted)])

RECURSIVE SortRects(_)
SortRects(rects) ==
    IF rects = <<>> THEN <<>>
    ELSE InsertRect(SortRects(SubSeq(rects, 1, Len(rects) - 1)), rects[Len(rects)])

\* ----------------------------------------------- extractStickerFromRect
\* The getContext('2d') calls of one extraction, in call order; an
\* extraction is run with the first call that returns null, or "none".
CtxFailures == {"none", "tempCtx", "segCtx", "sCtx", "fCtx"}

rawXOf(rect) == Max2(0, rect.minX)
rawYOf(rect) == Max2(0, rect.minY)
rawWOf(rect, sw) == Min2(sw - rawXOf(rect), rect.maxX - rect.minX)
rawHOf(rect, sh) == Min2(sh - rawYOf(rect), rect.maxY - rect.minY)

\* tempCtx.drawImage(source, rawX, rawY, rawW, rawH, 0, 0, rawW, rawH):
\* the crop's pixel (x, y).
CropPixel(src, sw, rect, x, y) == src[(rawYOf(rect) + y) * sw + rawXOf(rect) + x]

\* Second pass: the crop pixels with a > 20 that are not background at 240.
IsContent(px) ==
    px[4] > alphaFloor /\ ~isBackground(px[1], px[2], px[3], px[4], tightThreshold)

ContentPixels(src, sw, sh, rect) ==
    {xy \in (0 .. rawWOf(rect, sw) - 1) \X (0 .. rawHOf(rect, sh) - 1) :
        IsContent(CropPixel(src, sw, rect, xy[1], xy[2]))}

\* minX, maxX, minY, maxY of the scan (found = the set is not empty).
TightBox(content) ==
    [minX |-> SetMin({xy[1] : xy \in content}),
     maxX |-> SetMax({xy[1] : xy \in content}),
     minY |-> SetMin({xy[2] : xy \in content}),
     maxY |-> SetMax({xy[2] : xy \in content})]

contentWOfNoPlusOne(box) == box.maxX - box.minX
contentWOf(box) == box.maxX - box.minX + 1
contentHOf(box) == box.maxY - box.minY + 1

\* Colour keying of the padded canvas: near-white opaque pixels get alpha 0.
Keyed(px) ==
    IF px[4] > alphaFloor /\ px[1] > keyThreshold /\ px[2] > keyThreshold
          /\ px[3] > keyThreshold
    THEN <<px[1], px[2], px[3], 0>>
    ELSE px

\* The artwork of the sticker: the keyed content area, row-major (the
\* padding around it is transparent and the stroke is derived from it).
ArtOf(src, sw, rect, box) ==
    [k \in 0 .. (contentWOf(box) * contentHOf(box) - 1) |->
        Keyed(CropPixel(src, sw, rect,
                        box.minX + (k % contentWOf(box)),
                        box.minY + (k \div contentWOf(box))))]

finalWOf(box) == contentWOf(box) + stickerPadding * 2
finalHOf(box) == contentHOf(box) + stickerPadding * 2

canvasWOf(box) == finalWOf(box) + strokeWidth * 2
canvasHOf(box) == finalHOf(box) + strokeWidth * 2

\* The value returned: <<>> for null, << segment >> otherwise.
NoSegment == <<>>

extractStickerFromRectKeepEmpty(src, sw, sh, rect, defaultName, ctxFail, uuid) ==
    IF rawWOf(rect, sw) <= 0 \/ rawHOf(rect, sh) <= 0 THEN NoSegment
    ELSE IF ctxFail = "tempCtx" THEN NoSegment
    ELSE LET content == ContentPixels(src, sw, sh, rect)
             box == IF content = {} THEN [minX |-> rawWOf(rect, sw), maxX |-> 0,
                                          minY |-> rawHOf(rect, sh), maxY |-> 0]
                    ELSE TightBox(content)
         IN  IF ctxFail \in {"segCtx", "sCtx", "fCtx"} THEN NoSegment
             ELSE << [id |-> uuid,
                      dataUrl |-> <<>>,
                      originalX |-> rawXOf(rect) + box.minX,
                      originalY |-> rawYOf(rect) + box.minY,
                      width |-> canvasWOf(box),
                      height |-> canvasHOf(box),
                      name |-> defaultName,
                      isNaming |-> FALSE] >>

extractStickerFromRect(src, sw, sh, rect, defaultName, ctxFail, uuid) ==
    IF rawWOf(rect, sw) <= 0 \/ rawHOf(rect, sh) <= 0 THEN NoSegment
    ELSE IF ctxFail = "tempCtx" THEN NoSegment
    ELSE LET content == ContentPixels(src, sw, sh, rect)
         IN  IF content = {} THEN NoSegment
             ELSE IF ctxFail \in {"segCtx", "sCtx", "fCtx"} THEN NoSegment
             ELSE LET box == TightBox(content)
                  IN  << [id |-> uuid,
                          dataUrl |-> ArtOf(src, sw, rect, box),
                          originalX |-> rawXOf(rect) + box.minX,
                          originalY |-> rawYOf(rect) + box.minY,
                          width |-> canvasWOf(box),
                          height |-> canvasHOf(box),
                          name |-> defaultName,
                          isNaming |-> FALSE] >>

\* ------------------------------------------------------------ the sheets
SquareA == Box(1, 1, 13, 13, Black)

LinkBoxes(link, bx) ==
    CASE link = "none" -> <<>>
      [] link = "bridge1" -> << Box(14, 7, bx - 14, 1, Black) >>
      [] link = "bridge2" -> << Box(14, 7, bx - 14, 2, Black) >>
      [] link = "arm" -> << Box(14, 1, ImgW - 15, 1, Black) >>

BgSheets ==
    {[kind |-> "background", bg |-> c, boxes |-> <<>>] : c \in BgColours}
    \cup {[kind |-> "background", bg |-> c[1], boxes |-> << Box(g[1], g[2], g[3], g[4], c[2]) >>] :
            c \in {cc \in BgColours \X BgColours : cc[1] # cc[2]},
            g \in {<<0, 0, 20, ImgH>>, <<3, 2, 15, 14>>}}

OneSheets ==
    {[kind |-> "blobs", bg |-> White, boxes |-> << Box(x, y, s, s, c) >>] :
        x \in {0, 1, 16}, y \in {0, 1, 2}, s \in {5, 13, 14}, c \in InkColours}

TwoSheets ==
    {[kind |-> IF b[4] = "none" THEN "blobs" ELSE b[4], bg |-> White,
      boxes |-> <<SquareA, Box(b[1], b[2], 13, 13, b[3])>> \o LinkBoxes(b[4], b[1])] :
        b \in {16, 30, 31, 45} \X {1, 3} \X {Black, Pale}
               \X {"none", "bridge1", "bridge2", "arm"}}

EdgeSheets ==
    {[kind |-> "blobs", bg |-> White,
      boxes |-> << Box(ImgW - 13, 1, 13, 13, Black), Box(0, y, 13, 13, Black) >>] :
        y \in {1, 3}}

\* Two far squares and a third one between them, lower, found last by the
\* scan.
ChainSheets ==
    {[kind |-> "chain", bg |-> White,
      boxes |-> <<SquareA, Box(45, 1, 13, 13, Black), Box(x, 3, 13, 13, Black)>>] :
        x \in {23, 24}}

Sheets == BgSheets \cup OneSheets \cup TwoSheets \cup EdgeSheets \cup ChainSheets

\* ------------------------------------------------------------- the state
VARIABLES
    sheet,          \* the drawing the input image was rendered from
    width, height,  \* imageData.width, imageData.height
    data,           \* imageData.data, one RGBA tuple per pixel
    pc,             \* position in processStickerSheet
    result,         \* "pending", "returned" or "threw"
    progress,       \* the messages handed to onProgress, in order
    binaryMap,      \* original mask
    currentMap,     \* working mask
    tempMap,        \* erosion output buffer
    pass,           \* erosion passes done
    visited,        \* labeling marks
    seeds,          \* merged seeds, in discovery order
    seedIdx,        \* next seed of the region-growing loop (1-based)
    globalClaimed,  \* claimed map
    regions,        \* per pushed finalRect, the pixels its traversal popped
    finalRects,     \* grown rects (sorted once growing is over)
    rectIdx,        \* next rect of the extraction loop (1-based)
    outcomes,       \* per extracted rect, the value extraction returned
    ctxLost,        \* some getContext('2d') call of this run returned null
    nextUuid,       \* crypto.randomUUID(): a fresh value per call
    finalSegments,  \* the list being returned
    cropRect,       \* the rect of a manual crop (handleManualCrop)
    cropResult,     \* what extraction returned for it
    appMode,        \* App state: 'generate' or 'cut'
    status,         \* App state: [stage, progress, message]
    segments,       \* App state: the segment collection
    originalImageEl,    \* App state: an image is loaded (FALSE for null)
    isManualCropping,   \* App state: the manual crop modal is open
    calls,          \* the processFile calls made so far, each with its position
    namingRuns,     \* the runAiNaming calls made so far, each with its position
    resetClean,     \* handleReset ran and no upload was started since
    probe,          \* arguments and result of one isBackground call
    isZipping,      \* App state: handleDownloadAll is running
    archive,        \* the files of the JSZip instance, file name -> segment id
    request         \* one generateStickerName call: its outcome and its result

vars == <<sheet, width, height, data, pc, result, progress, binaryMap, currentMap,
          tempMap, pass, visited, seeds, seedIdx, globalClaimed, regions,
          finalRects, rectIdx, outcomes, ctxLost, nextUuid, finalSegments,
          cropRect, cropResult, appMode, status, segments, originalImageEl,
          isManualCropping, calls, namingRuns, resetClean, probe,
          isZipping, archive, request>>

input == <<sheet, width, height, data>>
masks == <<binaryMap, currentMap, tempMap, pass>>
labeling == <<visited, seeds>>
growing == <<seedIdx, globalClaimed, regions, finalRects>>
extraction == <<rectIdx, outcomes, nextUuid, finalSegments>>
manual == <<cropRect, cropResult>>
app == <<appMode, status, segments, originalImageEl, isManualCropping, calls,
         namingRuns, resetClean>>
services == <<isZipping, archive, request>>
NoRect == [minX |-> 0, maxX |-> 0, minY |-> 0, maxY |-> 0]

\* The App before any upload (useState initial values): no isBackground
\* call recorded, no archive being written, no naming request made.
Status(stage, prog, message) == [stage |-> stage, progress |-> prog, message |-> message]

NoProbe == [r |-> 0, g |-> 0, b |-> 0, a |-> 0, threshold |-> 0, out |-> "none"]

NoRequest == [pc |-> "none"]

AppAtRest ==
    /\ isZipping = FALSE
    /\ archive = <<>>
    /\ request = NoRequest
    /\ appMode = "generate"
    /\ status = Status("idle", 0, "")
    /\ segments = <<>>
    /\ originalImageEl = FALSE
    /\ isManualCropping = FALSE
    /\ calls = <<>>
    /\ namingRuns = <<>>
    /\ resetClean = FALSE

Init ==
    /\ sheet \in Sheets
    /\ width = ImgW
    /\ height = ImgH
    /\ data = Render(sheet, ImgW, ImgH)
    /\ pc = "start"
    /\ result = "pending"
    /\ progress = <<>>
    /\ binaryMap = {}
    /\ currentMap = {}
    /\ tempMap = {}
    /\ pass = 0
    /\ visited = {}
    /\ seeds = <<>>
    /\ seedIdx = 1
    /\ globalClaimed = {}
    /\ regions = <<>>
    /\ finalRects = <<>>
    /\ rectIdx = 1
    /\ outcomes = <<>>
    /\ ctxLost = FALSE
    /\ nextUuid = 1
    /\ finalSegments = <<>>
    /\ cropRect = NoRect
    /\ cropResult = NoSegment
    /\ AppAtRest
    /\ probe = NoProbe

\* canvas.getContext('2d') returned null: throw.
CanvasContextMissing ==
    /\ pc = "start"
    /\ pc' = "done"
    /\ result' = "threw"
    /\ ctxLost' = TRUE
    /\ UNCHANGED <<input, progress, masks, labeling, growing, extraction, manual, app, probe, services>>

\* Context obtained; image drawn and read back; binary map built; the
\* working mask is a copy of it.
BuildBinaryMap ==
    /\ pc = "start"
    /\ progress' = progress \o <<"Preprocessing image...", "Separating touching stickers...">>
    /\ binaryMap' = BinaryMapOf(data, width, height)
    /\ currentMap' = binaryMap'
    /\ tempMap' = {}
    /\ pass' = 0
    /\ pc' = "erode"
    /\ UNCHANGED <<input, result, labeling, growing, extraction, ctxLost, manual, app, probe, services>>

\* tempMap is a buffer of its own (new Uint8Array) and currentMap a copy
\* (Float32Array.from): what a pass writes does not reach binaryMap.
OriginalAfterPassShared(bmap, written) == written
OriginalAfterPass(bmap, written) == bmap

\* One pass of the erosion loop, ending with currentMap = from(tempMap).
ErodeOnePass ==
    /\ pc = "erode"
    /\ pass < erosionPasses
    /\ tempMap' = ErodePass(currentMap, tempMap, width, height)
    /\ currentMap' = tempMap'
    /\ binaryMap' = OriginalAfterPass(binaryMap, tempMap')
    /\ pass' = pass + 1
    /\ UNCHANGED <<input, pc, result, progress, labeling, growing,
                   extraction, ctxLost, manual, app, probe, services>>

StartLabeling ==
    /\ pc = "erode"
    /\ pass = erosionPasses
    /\ progress' = Append(progress, "Locating cores...")
    /\ visited' = {}
    /\ seeds' = <<>>
    /\ pc' = "label"
    /\ UNCHANGED <<input, result, masks, growing, extraction, ctxLost, manual, app, probe, services>>

\* The scan reaches the next unvisited foreground pixel of the working
\* mask: flood fill it (4 neighbours), then merge or push its box.
LabelSeed ==
    /\ pc = "label"
    /\ currentMap \ visited # {}
    /\ LET i == SetMin(currentMap \ visited)
           comp == Flood({i}, {i}, currentMap \ visited, 4, width, height)
       IN  /\ visited' = visited \cup comp
           /\ seeds' = MergeSeed(seeds, BoundsOf(comp, width))
    /\ UNCHANGED <<input, pc, result, progress, masks, growing, extraction, ctxLost, manual, app, probe, services>>

StartGrowing ==
    /\ pc = "label"
    /\ currentMap \ visited = {}
    /\ progress' = Append(progress, "Restoring " \o ToString(Len(seeds)) \o " stickers...")
    /\ seedIdx' = 1
    /\ globalClaimed' = {}
    /\ regions' = <<>>
    /\ finalRects' = <<>>
    /\ pc' = "grow"
    /\ UNCHANGED <<input, result, masks, labeling, extraction, ctxLost, manual, app, probe, services>>

\* binaryMap[startIdx] === 0: continue.
SkipSeed ==
    /\ pc = "grow"
    /\ seedIdx <= Len(seeds)
    /\ StartIdx(seeds[seedIdx], width) \notin binaryMap
    /\ seedIdx' = seedIdx + 1
    /\ UNCHANGED <<input, pc, result, progress, masks, labeling, globalClaimed,
                   regions, finalRects, extraction, ctxLost, manual, app, probe, services>>

GrowRegion ==
    /\ pc = "grow"
    /\ seedIdx <= Len(seeds)
    /\ StartIdx(seeds[seedIdx], width) \in binaryMap
    /\ LET popped == GrowFrom(StartIdx(seeds[seedIdx], width), binaryMap,
                              globalClaimed, width, height)
       IN  /\ globalClaimed' = globalClaimed \cup popped
           /\ regions' = Append(regions, popped)
           /\ finalRects' = Append(finalRects, BoundsOf(popped, width))
    /\ seedIdx' = seedIdx + 1
    /\ UNCHANGED <<input, pc, result, progress, masks, labeling, extraction, ctxLost, manual, app, probe, services>>

SortFinalRects ==
    /\ pc = "grow"
    /\ seedIdx > Len(seeds)
    /\ finalRects' = SortRects(finalRects)
    /\ rectIdx' = 1
    /\ finalSegments' = <<>>
    /\ pc' = "extract"
    /\ UNCHANGED <<input, result, progress, masks, labeling, seedIdx, globalClaimed,
                   regions, outcomes, nextUuid, ctxLost, manual, app, probe, services>>

\* `sticker_${i + 1}` for the 0-based i, that is for the 1-based rect k.
StickerName(k) == "sticker_" \o ToString(k)

\* for (let i = 0; i < finalRects.length; i++): the index after rect i
\* (1-based) has been handled, whatever extraction returned.
AfterExtractAbort(i, segment, n) == IF segment = NoSegment THEN n + 1 ELSE i + 1
AfterExtract(i, segment, n) == i + 1

\* Whether an extraction of rect reaches the getContext call named ctxFail.
CtxCallReached(src, sw, sh, rect, ctxFail) ==
    /\ ctxFail # "none"
    /\ rawWOf(rect, sw) > 0 /\ rawHOf(rect, sh) > 0
    /\ ctxFail # "tempCtx" => ContentPixels(src, sw, sh, rect) # {}

\* One iteration of the final loop: extract finalRects[i] as sticker_(i+1),
\* push the segment when there is one.
ExtractRect ==
    /\ pc = "extract"
    /\ rectIdx <= Len(finalRects)
    /\ \E ctxFail \in CtxFailures :
          LET segment == extractStickerFromRect(data, width, height,
                              finalRects[rectIdx], StickerName(rectIdx),
                              ctxFail, nextUuid)
          IN  /\ finalSegments' = finalSegments \o segment
              /\ outcomes' = Append(outcomes, segment)
              /\ nextUuid' = nextUuid + Len(segment)
              /\ ctxLost' = (ctxLost \/ CtxCallReached(data, width, height,
                                            finalRects[rectIdx], ctxFail))
              /\ rectIdx' = AfterExtract(rectIdx, segment, Len(finalRects))
    /\ UNCHANGED <<input, pc, result, progress, masks, labeling, growing, manual, app, probe, services>>

ReturnSegments ==
    /\ pc = "extract"
    /\ rectIdx > Len(finalRects)
    /\ pc' = "done"
    /\ result' = "returned"
    /\ UNCHANGED <<input, progress, masks, labeling, growing, extraction, ctxLost, manual, app, probe, services>>

Next ==
    \/ CanvasContextMissing
    \/ BuildBinaryMap
    \/ ErodeOnePass
    \/ StartLabeling
    \/ LabelSeed
    \/ StartGrowing
    \/ SkipSeed
    \/ GrowRegion
    \/ SortFinalRects
    \/ ExtractRect
    \/ ReturnSegments

Spec == Init /\ [][Next]_vars

\* --------------------------------------- extractStickerFromRect, alone
\* The extractor applied once to a source and a rect of any position
\* (as handleManualCrop and the final loop call it).
CropSheets ==
    {[kind |-> "crop", bg |-> c, boxes |-> <<>>] : c \in {White, Clear, NearWhite}}
    \cup {[kind |-> "crop", bg |-> c[1], boxes |-> << Box(2, 1, 3, 2, c[2]) >>] :
            c \in {White, Clear} \X {Black, Faint, Pale, NearWhite, Dim19}}
    \cup {[kind |-> "crop", bg |-> White,
           boxes |-> << Box(1, 1, 2, 1, c[1]), Box(4, 3, 2, 1, c[2]) >>] :
            c \in {Black, Faint} \X {Black, Faint, White}}
    \cup {[kind |-> "crop", bg |-> c,
           boxes |-> << Box(1, 1, 2, 1, Black), Box(4, 3, 2, 1, Black) >>] :
            c \in {Dim19, NearWhite}}

CropRects ==
    {[minX |-> x[1], maxX |-> x[2], minY |-> y[1], maxY |-> y[2]] :
        x \in {<<-1, 3>>, <<0, 0>>, <<0, CropW>>, <<1, 3>>, <<2, 6>>, <<4, 3>>,
               <<5, CropW + 2>>, <<CropW, CropW + 1>>},
        y \in {<<-1, 2>>, <<0, CropH>>, <<1, 1>>, <<1, 4>>, <<3, 4>>, <<CropH, CropH + 1>>}}

ExtractInit ==
    /\ sheet \in CropSheets
    /\ width = CropW
    /\ height = CropH
    /\ data = Render(sheet, CropW, CropH)
    /\ cropRect \in CropRects
    /\ cropResult = NoSegment
    /\ pc = "call"
    /\ result = "pending"
    /\ progress = <<>>
    /\ binaryMap = {}
    /\ currentMap = {}
    /\ tempMap = {}
    /\ pass = 0
    /\ visited = {}
    /\ seeds = <<>>
    /\ seedIdx = 1
    /\ globalClaimed = {}
    /\ regions = <<>>
    /\ finalRects = <<>>
    /\ rectIdx = 1
    /\ outcomes = <<>>
    /\ ctxLost = FALSE
    /\ nextUuid = 1
    /\ finalSegments = <<>>
    /\ AppAtRest
    /\ probe = NoProbe

ApplyExtract ==
    /\ pc = "call"
    /\ \E ctxFail \in CtxFailures :
          /\ cropResult' = extractStickerFromRect(data, width, height, cropRect,
                                                  "sticker", ctxFail, nextUuid)
          /\ nextUuid' = nextUuid + Len(cropResult')
          /\ ctxLost' = CtxCallReached(data, width, height, cropRect, ctxFail)
    /\ pc' = "returned"
    /\ UNCHANGED <<input, result, progress, masks, labeling, growing, rectIdx,
                   outcomes, finalSegments, cropRect, app, probe, services>>

ExtractNext == ApplyExtract

ExtractSpec == ExtractInit /\ [][ExtractNext]_vars

\* ---------------------------------------------------- isBackground, alone
\* One isBackground call on 8-bit channel values around every comparison
\* the code makes, and the binary map of an image made of that pixel next
\* to a white one.
Channels == {0, 19, 20, 21, 230, 231, 240, 241, 255}
Thresholds == {0, 230, 240, 254, 255}

PixelInit ==
    /\ probe \in [r : Channels, g : Channels, b : Channels, a : Channels,
                  threshold : Thresholds, out : {"none"}]
    /\ sheet = [kind |-> "pixel", bg |-> White, boxes |-> <<>>]
    /\ width = 2
    /\ height = 1
    /\ data = [i \in 0 .. 1 |->
                  IF i = 0 THEN <<probe.r, probe.g, probe.b, probe.a>> ELSE White]
    /\ cropRect = NoRect
    /\ cropResult = NoSegment
    /\ pc = "start"
    /\ result = "pending"
    /\ progress = <<>>
    /\ binaryMap = {}
    /\ currentMap = {}
    /\ tempMap = {}
    /\ pass = 0
    /\ visited = {}
    /\ seeds = <<>>
    /\ seedIdx = 1
    /\ globalClaimed = {}
    /\ regions = <<>>
    /\ finalRects = <<>>
    /\ rectIdx = 1
    /\ outcomes = <<>>
    /\ ctxLost = FALSE
    /\ nextUuid = 1
    /\ finalSegments = <<>>
    /\ AppAtRest

ClassifyPixel ==
    /\ probe.out = "none"
    /\ probe' = [probe EXCEPT !.out =
                    IF isBackground(probe.r, probe.g, probe.b, probe.a, probe.threshold)
                    THEN "true" ELSE "false"]
    /\ UNCHANGED <<input, pc, result, progress, masks, labeling, growing, extraction,
                   ctxLost, manual, app, services>>

PixelNext == ClassifyPixel \/ BuildBinaryMap

PixelSpec == PixelInit /\ [][PixelNext]_vars

\* ------------------------------------------------------------ the App
\* processFile, runAiNaming, handleManualCrop and handleReset of App.tsx.
\* Each await of an async handler ends one step; the steps of different
\* calls interleave freely.

\* Uploads and manual crops in one run of the App.
MaxCalls == 1
MaxCrops == 1
\* Lengths of the lists processStickerSheet may return.
DetectedSizes == {0, 1, 2, 4}
\* What generateStickerName resolves to.
Names == {"happy_cat"}

batchSize == 3
namingBase == 60
namingSpan == 40

\* The list a processStickerSheet call returns: n segments with fresh ids,
\* named sticker_1 .. sticker_n, none being named.
DetectedSegments(n, uuid) ==
    [k \in 1 .. n |->
        [id |-> uuid + k - 1,
         dataUrl |-> << <<k, k, k, 255>> >>,
         originalX |-> 100 * k,
         originalY |-> 20,
         width |-> canvasWOf([minX |-> 0, maxX |-> 50, minY |-> 0, maxY |-> 50]),
         height |-> canvasHOf([minX |-> 0, maxX |-> 50, minY |-> 0, maxY |-> 50]),
         name |-> StickerName(k),
         isNaming |-> FALSE]]

\* if (detectedSegments.length === 0)
NothingDetectedNever(detected) == FALSE
NothingDetected(detected) == Len(detected) = 0

\* prev.map(p => itemsToName.some(i => i.id === p.id) ? {...p, isNaming: true} : p)
MarkNaming(segs, items) ==
    [j \in DOMAIN segs |->
        IF \E i \in DOMAIN items : items[i].id = segs[j].id
        THEN [segs[j] EXCEPT !.isNaming = TRUE]
        ELSE segs[j]]

\* { ...p, name, isNaming: false }
RenamedNoSpread(p, seg, name) ==
    [p EXCEPT !.name = name, !.isNaming = FALSE, !.originalX = 0, !.originalY = 0,
              !.width = 0, !.height = 0]
Renamed(p, seg, name) == [p EXCEPT !.name = name, !.isNaming = FALSE]

\* prev.map(p => p.id === seg.id ? { ...p, name, isNaming: false } : p)
ApplyName(segs, seg, name) ==
    [j \in DOMAIN segs |->
        IF segs[j].id = seg.id THEN Renamed(segs[j], seg, name) ELSE segs[j]]

\* itemsToName.slice(i, i + batchSize), as 1-based positions.
BatchOfAllLeft(items, i) == {k \in DOMAIN items : i < k}
BatchOf(items, i) == {k \in DOMAIN items : i < k /\ k <= i + batchSize}

\* A runAiNaming call that has run up to the awaits of its first batch.
NamingStarted(items, origin) ==
    [items |-> items, origin |-> origin, i |-> 0, completed |-> 0,
     pending |-> BatchOf(items, 0),
     pc |-> IF items = <<>> THEN "done" ELSE "batch"]

NamingStatus == Status("ai_naming", namingBase, "naming")
CompleteStatus == Status("complete", 100, "complete")

\* The sheet behind originalImageEl, and the rects a manual crop may pass.
AppSheet == [kind |-> "crop", bg |-> White, boxes |-> << Box(2, 1, 3, 2, Black) >>]
ManualRects ==
    {[minX |-> 1, maxX |-> 6, minY |-> 0, maxY |-> 4],
     [minX |-> 0, maxX |-> 1, minY |-> 0, maxY |-> 1]}

AppInit ==
    /\ sheet = AppSheet
    /\ width = CropW
    /\ height = CropH
    /\ data = Render(AppSheet, CropW, CropH)
    /\ cropRect = NoRect
    /\ cropResult = NoSegment
    /\ pc = "app"
    /\ result = "pending"
    /\ progress = <<>>
    /\ binaryMap = {}
    /\ currentMap = {}
    /\ tempMap = {}
    /\ pass = 0
    /\ visited = {}
    /\ seeds = <<>>
    /\ seedIdx = 1
    /\ globalClaimed = {}
    /\ regions = <<>>
    /\ finalRects = <<>>
    /\ rectIdx = 1
    /\ outcomes = <<>>
    /\ ctxLost = FALSE
    /\ nextUuid = 1
    /\ finalSegments = <<>>
    /\ AppAtRest
    /\ probe = NoProbe

sheetState == <<input, pc, result, progress, masks, labeling, growing, rectIdx,
                outcomes, finalSegments, ctxLost, manual, probe, services>>

\* handleDirectUpload -> processFile, up to `await loadImage(file)`.
StartProcessFile ==
    /\ appMode = "generate"
    /\ Len(calls) < MaxCalls
    /\ appMode' = "cut"
    /\ status' = Status("analyzing_layout", 10, "loading image")
    /\ segments' = <<>>
    /\ calls' = Append(calls, [pc |-> "loadImage", outcome |-> "pending", detected |-> <<>>])
    /\ resetClean' = FALSE
    /\ UNCHANGED <<sheetState, nextUuid, originalImageEl, isManualCropping, namingRuns>>

\* loadImage resolved: processFile runs up to the 500 ms timeout.
ImageLoaded(c) ==
    /\ calls[c].pc = "loadImage"
    /\ originalImageEl' = TRUE
    /\ status' = Status("segmenting", 30, "detecting bounds")
    /\ calls' = [calls EXCEPT ![c].pc = "timeout"]
    /\ UNCHANGED <<sheetState, nextUuid, appMode, segments, isManualCropping,
                   namingRuns, resetClean>>

\* loadImage rejected (img.onerror): the catch block.
ImageLoadFailed(c) ==
    /\ calls[c].pc = "loadImage"
    /\ status' = Status("idle", 0, "processing error")
    /\ calls' = [calls EXCEPT ![c].pc = "done", ![c].outcome = "threw"]
    /\ UNCHANGED <<sheetState, nextUuid, appMode, segments, originalImageEl,
                   isManualCropping, namingRuns, resetClean>>

\* The timeout fired: processStickerSheet runs (it has no await of its
\* own, so its progress messages land in one step) and the rest of
\* processFile follows.
SheetProcessed(c) ==
    /\ calls[c].pc = "timeout"
    /\ \/ \* processStickerSheet threw: the catch block
          /\ status' = Status("idle", 0, "processing error")
          /\ calls' = [calls EXCEPT ![c].pc = "done", ![c].outcome = "threw"]
          /\ UNCHANGED <<segments, namingRuns, nextUuid>>
       \/ \E n \in DetectedSizes :
             LET detected == DetectedSegments(n, nextUuid)
             IN  /\ nextUuid' = nextUuid + n
                 /\ calls' = [calls EXCEPT ![c] = [pc |-> "done", outcome |-> "returned",
                                                    detected |-> detected]]
                 /\ IF NothingDetected(detected)
                    THEN /\ status' = Status("idle", 0, "nothing detected")
                         /\ UNCHANGED <<segments, namingRuns>>
                    ELSE /\ status' = [status EXCEPT !.message = "Restoring stickers..."]
                         /\ segments' = detected
                         /\ namingRuns' = Append(namingRuns,
                                [NamingStarted(detected, c) EXCEPT !.pc = "timeout", !.pending = {}])
    /\ UNCHANGED <<sheetState, appMode, originalImageEl, isManualCropping, resetClean>>

\* setTimeout(() => runAiNaming(detectedSegments), 500) fired: runAiNaming
\* up to the awaits of its first batch.
NamingStart(r) ==
    /\ namingRuns[r].pc = "timeout"
    /\ status' = NamingStatus
    /\ segments' = MarkNaming(segments, namingRuns[r].items)
    /\ namingRuns' = [namingRuns EXCEPT ![r] = NamingStarted(@.items, @.origin)]
    /\ UNCHANGED <<sheetState, nextUuid, appMode, originalImageEl, isManualCropping,
                   calls, resetClean>>

\* message: `naming completed/length...`, progress: 60 + (completed / length) * 40
\* (the lengths runs have here divide completed * 40 exactly).
NamingProgress(completed, n) ==
    Status("ai_naming", namingBase + (completed * namingSpan) \div n,
           "naming " \o ToString(completed) \o "/" \o ToString(n))

\* generateStickerName resolved for item k of run r: the segment with that
\* id is renamed, completed is counted, the status reports it; when the
\* batch has nothing pending, Promise.all resolves and the loop starts the
\* next batch or sets the status to complete.
NameArrived(r, k) ==
    /\ namingRuns[r].pc = "batch"
    /\ k \in namingRuns[r].pending
    /\ \E name \in Names :
          segments' = ApplyName(segments, namingRuns[r].items[k], name)
    /\ LET run == namingRuns[r]
           n == Len(run.items)
           done == run.completed + 1
           left == run.pending \ {k}
           reported == IF n > 1
                       THEN [status EXCEPT !.progress = NamingProgress(done, n).progress,
                                           !.message = NamingProgress(done, n).message]
                       ELSE status
       IN  IF left # {}
           THEN /\ namingRuns' = [namingRuns EXCEPT ![r].completed = done, ![r].pending = left]
                /\ status' = reported
           ELSE IF run.i + batchSize < n
           THEN /\ namingRuns' = [namingRuns EXCEPT ![r].completed = done,
                                                    ![r].i = run.i + batchSize,
                                                    ![r].pending = BatchOf(run.items, run.i + batchSize)]
                /\ status' = reported
           ELSE /\ namingRuns' = [namingRuns EXCEPT ![r].completed = done,
                                                    ![r].pending = {},
                                                    ![r].pc = "done"]
                /\ status' = CompleteStatus
    /\ UNCHANGED <<sheetState, nextUuid, appMode, originalImageEl, isManualCropping,
                   calls, resetClean>>

\* The MANUAL button (shown in cut mode when segments.length > 0).
OpenManualCrop ==
    /\ appMode = "cut"
    /\ Len(segments) > 0
    /\ ~isManualCropping
    /\ isManualCropping' = TRUE
    /\ UNCHANGED <<sheetState, nextUuid, appMode, status, segments, originalImageEl,
                   calls, namingRuns, resetClean>>

\* handleManualCrop (the modal is rendered in cut mode when
\* isManualCropping and an image is loaded): on a segment, append it, close
\* the modal and run runAiNaming([newSegment]) up to its first await.
handleManualCrop(rect) ==
    /\ appMode = "cut"
    /\ isManualCropping
    /\ originalImageEl
    /\ Cardinality({r \in DOMAIN namingRuns : namingRuns[r].origin = 0}) < MaxCrops
    /\ \E ctxFail \in {"none", "fCtx"} :
          LET newSegment == extractStickerFromRect(data, width, height, rect,
                                StickerName(Len(segments) + 1), ctxFail, nextUuid)
          IN  IF newSegment # NoSegment
              THEN /\ segments' = MarkNaming(segments \o newSegment, newSegment)
                   /\ isManualCropping' = FALSE
                   /\ status' = NamingStatus
                   /\ namingRuns' = Append(namingRuns, NamingStarted(newSegment, 0))
                   /\ nextUuid' = nextUuid + 1
              ELSE UNCHANGED <<segments, isManualCropping, status, namingRuns, nextUuid>>
    /\ UNCHANGED <<sheetState, appMode, originalImageEl, calls, resetClean>>

\* The RESTART button (shown in cut mode).
handleReset ==
    /\ appMode = "cut"
    /\ segments' = <<>>
    /\ originalImageEl' = FALSE
    /\ appMode' = "generate"
    /\ status' = Status("idle", 0, "")
    /\ resetClean' = TRUE
    /\ UNCHANGED <<sheetState, nextUuid, isManualCropping, calls, namingRuns>>

AppNext ==
    \/ StartProcessFile
    \/ \E c \in DOMAIN calls : ImageLoaded(c)
    \/ \E c \in DOMAIN calls : ImageLoadFailed(c)
    \/ \E c \in DOMAIN calls : SheetProcessed(c)
    \/ \E r \in DOMAIN namingRuns : NamingStart(r)
    \/ \E r \in DOMAIN namingRuns : \E k \in DOMAIN namingRuns[r].items : NameArrived(r, k)
    \/ OpenManualCrop
    \/ \E rect \in ManualRects : handleManualCrop(rect)
    \/ handleReset

AppSpec == AppInit /\ [][AppNext]_vars

\* ------------------------------------------------------------ runAiNaming
\* The App from the moment processFile has put the detected segments in
\* the collection and armed the timer of runAiNaming: the naming runs, the
\* manual crops and the reset, without a further upload.
MaxItems == SetMax(DetectedSizes)

NamingInit ==
    /\ sheet = AppSheet
    /\ width = CropW
    /\ height = CropH
    /\ data = Render(AppSheet, CropW, CropH)
    /\ cropRect = NoRect
    /\ cropResult = NoSegment
    /\ pc = "app"
    /\ result = "pending"
    /\ progress = <<>>
    /\ binaryMap = {}
    /\ currentMap = {}
    /\ tempMap = {}
    /\ pass = 0
    /\ visited = {}
    /\ seeds = <<>>
    /\ seedIdx = 1
    /\ globalClaimed = {}
    /\ regions = <<>>
    /\ finalRects = <<>>
    /\ rectIdx = 1
    /\ outcomes = <<>>
    /\ ctxLost = FALSE
    /\ finalSegments = <<>>
    /\ probe = NoProbe
    /\ isZipping = FALSE
    /\ archive = <<>>
    /\ request = NoRequest
    /\ appMode = "cut"
    /\ originalImageEl = TRUE
    /\ isManualCropping = FALSE
    /\ resetClean = FALSE
    /\ status = Status("segmenting", 30, "Restoring stickers...")
    /\ \E n \in DetectedSizes \ {0} :
          /\ segments = DetectedSegments(n, 1)
          /\ nextUuid = n + 1
          /\ calls = << [pc |-> "done", outcome |-> "returned",
                         detected |-> DetectedSegments(n, 1)] >>
          /\ namingRuns = << [NamingStarted(DetectedSegments(n, 1), 1)
                                 EXCEPT !.pc = "timeout", !.pending = {}] >>

NamingNext ==
    \/ \E r \in DOMAIN namingRuns : NamingStart(r)
    \/ \E r \in DOMAIN namingRuns : \E k \in DOMAIN namingRuns[r].items : NameArrived(r, k)
    \/ OpenManualCrop
    \/ \E rect \in ManualRects : handleManualCrop(rect)
    \/ handleReset

\* Every naming request that is in flight returns in the end (fetch
\* settles, and generateStickerName resolves on every outcome), so the
\* step that handles an answer is taken as long as one is awaited.  The
\* timer of runAiNaming fires.  Nothing is assumed of the user's steps.
NamingSpec ==
    /\ NamingInit
    /\ [][NamingNext]_vars
    /\ WF_vars(\E r \in DOMAIN namingRuns :
                  \E k \in DOMAIN namingRuns[r].items : NameArrived(r, k))
    /\ WF_vars(\E r \in DOMAIN namingRuns : NamingStart(r))

\* ------------------------------------------------ finalRects.sort, alone
\* The sort of step 5 applied to the rects grown on a sheet wider than the
\* comparator's weight: processStickerSheet at the end of its growing
\* loop, with the final rects any two or three distinct boxes of the sheet.
SheetW == 2048
SheetH == 8

GrownRects ==
    {[minX |-> x, maxX |-> x + 10, minY |-> y, maxY |-> y + 3] :
        x \in {0, 40, 999, 1000, SheetW - 11}, y \in {0, 1, 2, SheetH - 4}}

SortInit ==
    /\ sheet = [kind |-> "wide", bg |-> White, boxes |-> <<>>]
    /\ width = SheetW
    /\ height = SheetH
    /\ data = <<>>
    /\ pc = "grow"
    /\ result = "pending"
    /\ progress = <<"Preprocessing image...", "Separating touching stickers...",
                    "Locating cores...", "Restoring 3 stickers...">>
    /\ binaryMap = {}
    /\ currentMap = {}
    /\ tempMap = {}
    /\ pass = erosionPasses
    /\ visited = {}
    /\ seeds = <<>>
    /\ seedIdx = 1
    /\ globalClaimed = {}
    /\ regions = <<>>
    /\ finalRects \in {ab \in GrownRects \X GrownRects : ab[1] # ab[2]}
    /\ rectIdx = 1
    /\ outcomes = <<>>
    /\ ctxLost = FALSE
    /\ nextUuid = 1
    /\ finalSegments = <<>>
    /\ cropRect = NoRect
    /\ cropResult = NoSegment
    /\ AppAtRest
    /\ probe = NoProbe

SortNext == SortFinalRects

SortSpec == SortInit /\ [][SortNext]_vars

\* ------------------------------------------------------ handleDownloadAll
\* The SAVE ALL button on a collection of segments of any names.  The
\* JSZip instance is the list of its files in insertion order, each with
\* the id of the segment whose picture it holds; zip.file(name, ...) on a
\* name the instance already has replaces that file's content.
MaxSegments == 3

SegmentNames == {"cat", "cat_1", "cat_2", "cat_1_1", "dog"}

\* let fileName = seg.name; let counter = 1;
\* while (usedNames.has(fileName)) { fileName = `${seg.name}_${counter}`; counter++; }
RECURSIVE FileNameFrom(_, _, _, _)
FileNameFrom(fileName, name, counter, usedNames) ==
    IF fileName \in usedNames
    THEN FileNameFrom(name \o "_" \o ToString(counter), name, counter + 1, usedNames)
    ELSE fileName

FileNameForOneTry(name, usedNames) ==
    IF name \in usedNames THEN name \o "_1" ELSE name

FileNameFor(name, usedNames) == FileNameFrom(name, name, 1, usedNames)

\* zip.file(`${fileName}.png`, base64Data, { base64: true })
ZipFile(zip, file, id) ==
    IF \E k \in DOMAIN zip : zip[k].file = file
    THEN [k \in DOMAIN zip |-> IF zip[k].file = file THEN [file |-> file, id |-> id]
                                ELSE zip[k]]
    ELSE Append(zip, [file |-> file, id |-> id])

\* segments.forEach(...): the zip and the used names after the first n
\* segments.
RECURSIVE Zipped(_, _)
Zipped(segs, n) ==
    IF n = 0 THEN [zip |-> <<>>, usedNames |-> {}]
    ELSE LET before == Zipped(segs, n - 1)
             fileName == FileNameFor(segs[n].name, before.usedNames)
         IN  [zip |-> ZipFile(before.zip, fileName \o ".png", segs[n].id),
              usedNames |-> before.usedNames \cup {fileName}]

NamedSegments(names) ==
    [k \in DOMAIN names |->
        [DetectedSegments(Len(names), 1)[k] EXCEPT !.name = names[k]]]

DownloadInit ==
    /\ sheet = AppSheet
    /\ width = CropW
    /\ height = CropH
    /\ data = Render(AppSheet, CropW, CropH)
    /\ cropRect = NoRect
    /\ cropResult = NoSegment
    /\ pc = "app"
    /\ result = "pending"
    /\ progress = <<>>
    /\ binaryMap = {}
    /\ currentMap = {}
    /\ tempMap = {}
    /\ pass = 0
    /\ visited = {}
    /\ seeds = <<>>
    /\ seedIdx = 1
    /\ globalClaimed = {}
    /\ regions = <<>>
    /\ finalRects = <<>>
    /\ rectIdx = 1
    /\ outcomes = <<>>
    /\ ctxLost = FALSE
    /\ nextUuid = MaxSegments + 1
    /\ finalSegments = <<>>
    /\ appMode = "cut"
    /\ status = CompleteStatus
    /\ \E n \in 1 .. MaxSegments :
          segments \in {NamedSegments(names) : names \in [1 .. n -> SegmentNames]}
    /\ originalImageEl = TRUE
    /\ isManualCropping = FALSE
    /\ calls = <<>>
    /\ namingRuns = <<>>
    /\ resetClean = FALSE
    /\ probe = NoProbe
    /\ isZipping = FALSE
    /\ archive = <<>>
    /\ request = NoRequest

\* handleDownloadAll up to `await zip.generateAsync(...)`: a new JSZip
\* filled from the segments of this render.
handleDownloadAll ==
    /\ appMode = "cut"
    /\ Len(segments) > 0
    /\ isZipping' = TRUE
    /\ archive' = Zipped(segments, Len(segments)).zip
    /\ UNCHANGED <<input, pc, result, progress, masks, labeling, growing, extraction,
                   ctxLost, manual, probe, app, request>>

\* The blob was generated (or generateAsync rejected and the alert was
\* shown); the link was clicked; finally setIsZipping(false).
DownloadFinished ==
    /\ isZipping
    /\ isZipping' = FALSE
    /\ UNCHANGED <<input, pc, result, progress, masks, labeling, growing, extraction,
                   ctxLost, manual, probe, app, archive, request>>

DownloadNext == handleDownloadAll \/ DownloadFinished

DownloadSpec == DownloadInit /\ [][DownloadNext]_vars

\* ---------------------------------------------------- generateStickerName
\* One call of generateStickerName of qwenService.ts.  A text is the
\* sequence of its pieces: words, JSON texts, the blank " " and the code
\* fences.  A JavaScript value is [type, str] with str what String(value)
\* gives.
JsString(s) == [type |-> "string", str |-> s]
JsNumber(s) == [type |-> "number", str |-> s]
JsArray(s) == [type |-> "array", str |-> s]
JsNull == [type |-> "null", str |-> "null"]
JsObject == [type |-> "object", str |-> "[object Object]"]

\* Boolean(value), as `||` tests it.
Truthy(v) ==
    CASE v.type = "string" -> v.str # ""
      [] v.type = "number" -> v.str # "0"
      [] v.type = "null" -> FALSE
      [] OTHER -> TRUE

\* The pieces standing for the three backquotes and for the three
\* backquotes followed by json.
Fence == "<fence>"
FenceJson == "<fence>json"
Blank == " "

\* The texts JSON.parse accepts, with the value parsed and, for an
\* object, its filename property (<<>> when it has none).
JsonTexts ==
    {[text |-> << "{\"filename\":\"happy_cat\"}" >>, value |-> JsObject,
      filename |-> << JsString("happy_cat") >>],
     [text |-> << "{\"filename\":", Blank, "\"sad_crying\"}" >>, value |-> JsObject,
      filename |-> << JsString("sad_crying") >>],
     [text |-> << "{\"filename\":\"\"}" >>, value |-> JsObject,
      filename |-> << JsString("") >>],
     [text |-> << "{\"name\":\"cat\"}" >>, value |-> JsObject, filename |-> <<>>],
     [text |-> << "{\"filename\":null}" >>, value |-> JsObject, filename |-> << JsNull >>],
     [text |-> << "{\"filename\":7}" >>, value |-> JsObject, filename |-> << JsNumber("7") >>],
     [text |-> << "{\"filename\":[]}" >>, value |-> JsObject, filename |-> << JsArray("") >>],
     [text |-> << "null" >>, value |-> JsNull, filename |-> <<>>],
     [text |-> << "42" >>, value |-> JsNumber("42"), filename |-> <<>>]}

\* What the model may answer (output.text, or the text of the first
\* choice).
AnswerTexts ==
    {j.text : j \in JsonTexts}
    \cup {<< FenceJson, Blank, "{\"filename\":\"happy_cat\"}", Blank, Fence >>,
          <<>>,
          << Blank, Blank >>,
          << Fence, Fence >>,
          << "Happy", Blank, "cat" >>,
          << "sorry" >>,
          << "{\"filename\":", Blank, "happy" >>}

\* text.replace(/```json/g, '').replace(/```/g, '')
StripFences(text) == SelectSeq(text, LAMBDA piece : piece \notin {Fence, FenceJson})

\* text.trim()
RECURSIVE Trim(_)
Trim(text) ==
    IF text = <<>> THEN text
    ELSE IF Head(text) = Blank THEN Trim(Tail(text))
    ELSE IF text[Len(text)] = Blank THEN Trim(SubSeq(text, 1, Len(text) - 1))
    ELSE text

\* text.split(' ')[0]
RECURSIVE FirstWord(_)
FirstWord(text) ==
    IF text = <<>> \/ Head(text) = Blank THEN ""
    ELSE Head(text) \o FirstWord(Tail(text))

\* s.toLowerCase()
ToLowerCase(s) ==
    CASE s = "Happy" -> "happy"
      [] OTHER -> s

\* The try around JSON.parse: json.filename || "sticker", and in the
\* catch (a text JSON.parse rejects, or a parsed null, whose .filename
\* throws) the lower-cased first word || "sticker".
NameOf(text) ==
    LET parsed == {j \in JsonTexts : j.text = text}
    IN  IF parsed # {} /\ (CHOOSE j \in parsed : TRUE).value.type # "null"
        THEN LET j == CHOOSE j \in parsed : TRUE
             IN  IF j.filename # <<>> /\ Truthy(j.filename[1])
                 THEN j.filename[1]
                 ELSE JsString("sticker")
        ELSE IF ToLowerCase(FirstWord(text)) # ""
             THEN JsString(ToLowerCase(FirstWord(text)))
             ELSE JsString("sticker")

\* The bodies response.json() may give: not parseable, null, an object
\* without output, output.text, the first choice's text, a text that is
\* not a string.
Bodies ==
    {[kind |-> k, text |-> <<>>] : k \in {"invalid", "null", "no output", "number text"}}
    \cup {[kind |-> k, text |-> a] : k \in {"output.text", "choice"}, a \in AnswerTexts}

\* What the request may meet: fetch rejects, or a response with its ok
\* flag, its content type and its body.
Responses ==
    {[fetch |-> "rejected", ok |-> FALSE, isJson |-> FALSE, body |-> [kind |-> "invalid", text |-> <<>>]]}
    \cup {[fetch |-> "resolved", ok |-> o, isJson |-> j, body |-> b] :
            o \in BOOLEAN, j \in BOOLEAN, b \in Bodies}

\* catch (error) { console.error(...); return "sticker"; }
OnErrorRethrow(req, where) ==
    [req EXCEPT !.pc = "rejected", !.threw = where]
OnError(req, where) ==
    [req EXCEPT !.pc = "resolved", !.threw = where, !.name = JsString("sticker")]

NameInit ==
    /\ sheet = AppSheet
    /\ width = CropW
    /\ height = CropH
    /\ data = Render(AppSheet, CropW, CropH)
    /\ cropRect = NoRect
    /\ cropResult = NoSegment
    /\ pc = "app"
    /\ result = "pending"
    /\ progress = <<>>
    /\ binaryMap = {}
    /\ currentMap = {}
    /\ tempMap = {}
    /\ pass = 0
    /\ visited = {}
    /\ seeds = <<>>
    /\ seedIdx = 1
    /\ globalClaimed = {}
    /\ regions = <<>>
    /\ finalRects = <<>>
    /\ rectIdx = 1
    /\ outcomes = <<>>
    /\ ctxLost = FALSE
    /\ nextUuid = 1
    /\ finalSegments = <<>>
    /\ appMode = "cut"
    /\ status = NamingStatus
    /\ segments = <<>>
    /\ originalImageEl = TRUE
    /\ isManualCropping = FALSE
    /\ calls = <<>>
    /\ namingRuns = <<>>
    /\ resetClean = FALSE
    /\ probe = NoProbe
    /\ isZipping = FALSE
    /\ archive = <<>>
    /\ \E r \in Responses :
          request = [pc |-> "fetch", response |-> r, threw |-> "nothing",
                     name |-> JsString("")]

nameFrame == <<input, pc, result, progress, masks, labeling, growing, extraction,
               ctxLost, manual, probe, app, isZipping, archive>>

\* `await fetch(...)` settles.
FetchSettled ==
    /\ request.pc = "fetch"
    /\ request' = IF request.response.fetch = "rejected"
                  THEN OnError(request, "fetch")
                  ELSE [request EXCEPT !.pc = "handleResponse"]
    /\ UNCHANGED nameFrame

\* `await handleResponse(response)` settles and the rest of the function
\* runs: handleResponse throws on a response that is not ok (whatever its
\* body) and on a content type that is not JSON, response.json() rejects
\* on a body that is not JSON; data.output throws on null, .replace on a
\* text that is not a string.
ResponseHandled ==
    /\ request.pc = "handleResponse"
    /\ LET r == request.response
           text == IF r.body.kind \in {"output.text", "choice"} THEN r.body.text ELSE <<>>
       IN  request' =
               IF ~r.ok THEN OnError(request, "status")
               ELSE IF ~r.isJson THEN OnError(request, "content type")
               ELSE IF r.body.kind = "invalid" THEN OnError(request, "body")
               ELSE IF r.body.kind = "null" THEN OnError(request, "data")
               ELSE IF r.body.kind = "number text" THEN OnError(request, "text")
               ELSE [request EXCEPT !.pc = "resolved",
                                    !.name = NameOf(Trim(StripFences(text)))]
    /\ UNCHANGED nameFrame

NameNext == FetchSettled \/ ResponseHandled

NameSpec == NameInit /\ [][NameNext]_vars


\* =============================================================== claims
\* What the claims speak of, stated from the input and the output alone.
Returned == pc = "done" /\ result = "returned"

\* Background as the specification words it: alpha < 20, or r, g and b
\* all above the threshold.
SaidBackground(px, threshold) ==
    px[4] < 20 \/ (px[1] > threshold /\ px[2] > threshold /\ px[3] > threshold)

\* The source rectangle a blob of the sheet covers (inclusive bounds).
BlobRect(b) ==
    [minX |-> b.x0, maxX |-> b.x0 + b.w - 1, minY |-> b.y0, maxY |-> b.y0 + b.h - 1]

\* The source rectangle a segment's tight content box covers: its size is
\* the segment's size less the padding and the stroke on both sides.
Footprint(seg) ==
    [minX |-> seg.originalX,
     maxX |-> seg.originalX + (seg.width - 2 * stickerPadding - 2 * strokeWidth) - 1,
     minY |-> seg.originalY,
     maxY |-> seg.originalY + (seg.height - 2 * stickerPadding - 2 * strokeWidth) - 1]

RectInside(inner, outer) ==
    /\ outer.minX <= inner.minX /\ inner.maxX <= outer.maxX
    /\ outer.minY <= inner.minY /\ inner.maxY <= outer.maxY

RectsDisjoint(a, b) ==
    \/ a.maxX < b.minX \/ b.maxX < a.minX
    \/ a.maxY < b.minY \/ b.maxY < a.minY

\* Gap between two rects: 0 when they overlap on both axes.
RectGap(a, b) == Max2(xDistOf(a, b), yDistOf(a, b))

\* A sheet of solid opaque blobs on white, none smaller than the core the
\* erosion passes need, none touching the border, each pair at least the
\* merge distance apart.
WellSeparatedBlobs(sh) ==
    /\ sh.kind = "blobs"
    /\ sh.bg = White
    /\ \A k \in DOMAIN sh.boxes :
          /\ sh.boxes[k].c = Black
          /\ sh.boxes[k].w > 2 * erosionPasses /\ sh.boxes[k].h > 2 * erosionPasses
          /\ sh.boxes[k].x0 >= 1 /\ sh.boxes[k].x0 + sh.boxes[k].w <= ImgW - 1
          /\ sh.boxes[k].y0 >= 1 /\ sh.boxes[k].y0 + sh.boxes[k].h <= ImgH - 1
    /\ \A k, m \in DOMAIN sh.boxes :
          k < m => RectGap(BlobRect(sh.boxes[k]), BlobRect(sh.boxes[m])) >= seedMergeDist

\* C1: a sheet of K well-separated solid blobs on white yields exactly K
\* segments, each segment's box holding its whole blob; for a single
\* square the tight content box is the square itself.
C1_BlobsYieldSegments ==
    (Returned /\ ~ctxLost /\ WellSeparatedBlobs(sheet)) =>
        /\ Len(finalSegments) = Len(sheet.boxes)
        /\ \A k \in DOMAIN sheet.boxes :
              \E n \in DOMAIN finalSegments :
                  RectInside(BlobRect(sheet.boxes[k]), Footprint(finalSegments[n]))
        /\ Len(sheet.boxes) = 1 =>
              Footprint(finalSegments[1]) = BlobRect(sheet.boxes[1])

\* The count alone of C1 (what the code does keep).
C1_CountOnly ==
    (Returned /\ ~ctxLost /\ WellSeparatedBlobs(sheet)) =>
        Len(finalSegments) = Len(sheet.boxes)

\* C2: during region growing no pixel, a start pixel included, is given to
\* a region after an earlier region has claimed it.
C2_PixelClaimedOnce ==
    \A i, j \in DOMAIN regions : i < j => regions[i] \cap regions[j] = {}

\* C3: the source footprints of any two distinct output segments of one
\* call are disjoint.
C3_SegmentsDisjoint ==
    \A i, j \in DOMAIN finalSegments :
        i < j => RectsDisjoint(Footprint(finalSegments[i]), Footprint(finalSegments[j]))

\* C4: two blobs joined only by a bridge that the erosion passes cut (the
\* two cores come out as two seeds) are returned as 2 segments.
C4_BridgedBlobsSplit ==
    (Returned /\ ~ctxLost /\ sheet.kind \in {"bridge1", "bridge2"}
        /\ sheet.boxes[3].h <= erosionPasses /\ Len(seeds) = 2) =>
        Len(finalSegments) = 2

\* C5: an image whose pixels are all background (alpha < 20, or r, g, b
\* all above the mask threshold) yields the empty list.
C5_BackgroundYieldsNothing ==
    (Returned /\ \A i \in DOMAIN data : SaidBackground(data[i], 240)) =>
        finalSegments = <<>>

C5_Witness ==
    /\ Returned
    /\ \A i \in DOMAIN data : SaidBackground(data[i], 240)
    /\ \E i, j \in DOMAIN data : data[i] = NearWhite /\ data[j] = Clear
    /\ finalSegments = <<>>

\* The fixed grid of the Grid Fallback: GridCols x GridRows cells of the
\* image, each shrunk by the margin, row by row.
GridRects(w, h) ==
    [k \in 1 .. (GridCols * GridRows) |->
        [minX |-> ((k - 1) % GridCols) * (w \div GridCols) + GridMargin,
         maxX |-> (((k - 1) % GridCols) + 1) * (w \div GridCols) - GridMargin,
         minY |-> ((k - 1) \div GridCols) * (h \div GridRows) + GridMargin,
         maxY |-> (((k - 1) \div GridCols) + 1) * (h \div GridRows) - GridMargin]]

\* C6: with fewer regions than the floor after seed merging, the rects
\* handed to extraction are the 16 cells of the fixed grid; with the floor
\* reached, they are the organic regions.
C6_GridFallback ==
    pc \in {"extract", "done"} /\ result # "threw" =>
        IF Len(seeds) < GridFloor
        THEN finalRects = GridRects(width, height)
        ELSE Len(finalRects) <= Len(seeds)

\* C7: extraction returns no segment when the rect lies inside a uniform
\* background region of the source, and when the clamped crop has zero
\* width or zero height.
InsideUniformBackground(src, sw, sh, rect) ==
    /\ 0 <= rect.minX /\ rect.minX <= rect.maxX /\ rect.maxX < sw
    /\ 0 <= rect.minY /\ rect.minY <= rect.maxY /\ rect.maxY < sh
    /\ \E c \in BgColours :
          \A x \in rect.minX .. rect.maxX, y \in rect.minY .. rect.maxY :
              src[y * sw + x] = c

ZeroAreaCrop(sw, sh, rect) ==
    \/ Min2(sw - Max2(0, rect.minX), rect.maxX - rect.minX) = 0
    \/ Min2(sh - Max2(0, rect.minY), rect.maxY - rect.minY) = 0

CropColumns(rect, sw) ==
    {x \in Max2(0, rect.minX) .. (Max2(0, rect.minX) + Min2(sw - Max2(0, rect.minX), rect.maxX - rect.minX) - 1) : TRUE}

CropRows(rect, sh) ==
    {y \in Max2(0, rect.minY) .. (Max2(0, rect.minY) + Min2(sh - Max2(0, rect.minY), rect.maxY - rect.minY) - 1) : TRUE}

SaidContent(src, sw, sh, rect) ==
    {xy \in CropColumns(rect, sw) \X CropRows(rect, sh) :
        /\ src[xy[2] * sw + xy[1]][4] > 20
        /\ ~SaidBackground(src[xy[2] * sw + xy[1]], 240)}

C8_PaddedSize ==
    (pc = "returned" /\ cropResult # NoSegment) =>
        LET content == SaidContent(data, width, height, cropRect)
            xs == {xy[1] : xy \in content}
            ys == {xy[2] : xy \in content}
        IN  /\ content # {}
            /\ cropResult[1].width = (SetMax(xs) - SetMin(xs) + 1) + 2 * 16 + 2 * 6
            /\ cropResult[1].height = (SetMax(ys) - SetMin(ys) + 1) + 2 * 16 + 2 * 6

C8_Witness ==
    /\ pc = "returned"
    /\ cropResult # NoSegment
    /\ cropResult[1].width = 2 + 2 * 16 + 2 * 6
    /\ cropResult[1].height = 1 + 2 * 16 + 2 * 6
    /\ cropRect.maxX - cropRect.minX > 2

\* C9: a rect whose extraction yields no segment is skipped and the loop
\* goes on: every rect is extracted, and the list returned holds, in rect
\* order, exactly the segments of the rects whose extraction succeeded.
RECURSIVE Flatten(_)
Flatten(seqs) ==
    IF seqs = <<>> THEN <<>>
    ELSE Flatten(SubSeq(seqs, 1, Len(seqs) - 1)) \o seqs[Len(seqs)]

C9_FailedRectSkipped ==
    Returned =>
        /\ Len(outcomes) = Len(finalRects)
        /\ finalSegments = Flatten(outcomes)
        /\ \A k \in DOMAIN outcomes :
              outcomes[k] # NoSegment =>
                  /\ outcomes[k][1].name = StickerName(k)
                  /\ RectInside(Footprint(outcomes[k][1]), finalRects[k])

C9_Witness ==
    /\ Returned
    /\ Len(outcomes) = 2
    /\ outcomes[1] = NoSegment
    /\ outcomes[2] # NoSegment
    /\ Len(finalSegments) = 1

\* C10: when a 2D context cannot be obtained at any point of the call,
\* extraction of a rect included, the call fails instead of returning.
C10_ContextLossFails ==
    (pc = "done" /\ ctxLost) => result = "threw"

\* C11: when processStickerSheet returns no segment, that step of
\* processFile sets the status to stage idle with the nothing-detected
\* message, leaves the segment collection as it is (empty, for an App with
\* this one upload) and starts no naming run; it is no exception path.
C11_NothingDetected ==
    [][\A c \in DOMAIN calls :
          (calls[c].pc = "timeout" /\ calls'[c].outcome = "returned"
              /\ calls'[c].detected = <<>>) =>
              /\ status' = [stage |-> "idle", progress |-> 0, message |-> "nothing detected"]
              /\ segments' = segments
              /\ (Len(calls) = 1 => segments' = <<>>)
              /\ namingRuns' = namingRuns]_vars

C11_Witness ==
    /\ Len(calls) = 1
    /\ calls[1].pc = "done" /\ calls[1].outcome = "returned" /\ calls[1].detected = <<>>
    /\ status = [stage |-> "idle", progress |-> 0, message |-> "nothing detected"]
    /\ segments = <<>>
    /\ namingRuns = <<>>

\* The pipeline transition a progress message announces.
StageOf(msg, seedCount) ==
    CASE msg = "Preprocessing image..." -> "preprocessing"
      [] msg = "Solidifying shapes..." -> "shape solidification"
      [] msg = "Separating touching stickers..." -> "separation"
      [] msg = "Locating cores..." -> "core-location"
      [] msg = "Restoring " \o ToString(seedCount) \o " stickers..." -> "restoration"
      [] OTHER -> "finalization"

\* C12: a call that returns has invoked the progress callback once per
\* major transition, in the order preprocessing, shape solidification,
\* separation, core-location, restoration, finalization.
C12_ProgressOrder ==
    Returned =>
        [k \in DOMAIN progress |-> StageOf(progress[k], Len(seeds))] =
            <<"preprocessing", "shape solidification", "separation", "core-location",
              "restoration", "finalization">>

\* What the call does emit (the part of C12 the code keeps): four
\* messages in pipeline order, each before its stage's variables are
\* written, none once the call is over.
C12_EmittedInOrder ==
    /\ Returned =>
          [k \in DOMAIN progress |-> StageOf(progress[k], Len(seeds))] =
              <<"preprocessing", "separation", "core-location", "restoration">>
    /\ pc = "erode" => Len(progress) = 2
    /\ pc = "label" => Len(progress) = 3
    /\ pc \in {"grow", "extract"} => Len(progress) = 4

\* The fill the code runs next from this state, cut after width * height
\* passes of its loop.
NextFill ==
    IF pc = "label" /\ currentMap \ visited # {}
    THEN LabelFill(SetMin(currentMap \ visited), currentMap, visited, width, height,
                   width * height)
    ELSE IF pc = "grow" /\ seedIdx <= Len(seeds)
            /\ StartIdx(seeds[seedIdx], width) \in binaryMap
    THEN GrowFill(StartIdx(seeds[seedIdx], width), binaryMap, globalClaimed,
                  width, height, width * height)
    ELSE [stack |-> <<>>, marked |-> {}, log |-> <<>>]

\* The pixels the action of that fill takes as traversed.
NextFillTaken ==
    IF pc = "label" /\ currentMap \ visited # {}
    THEN Flood({SetMin(currentMap \ visited)}, {SetMin(currentMap \ visited)},
               currentMap \ visited, 4, width, height)
    ELSE IF pc = "grow" /\ seedIdx <= Len(seeds)
            /\ StartIdx(seeds[seedIdx], width) \in binaryMap
    THEN GrowFrom(StartIdx(seeds[seedIdx], width), binaryMap, globalClaimed, width, height)
    ELSE {}

\* Every fill (seed labeling and region growing) pushes each pixel at most
\* once and has emptied its stack after at most width * height pops; the
\* pixels it pushed are the pixels the step takes as traversed.
C13_PushedOnce ==
    LET fill == NextFill
    IN  /\ fill.stack = <<>>
        /\ \A j, k \in DOMAIN fill.log : j < k => fill.log[j] # fill.log[k]
        /\ Len(fill.log) <= width * height
        /\ SeqRange(fill.log) = NextFillTaken

\* What is left of the loop the call is in: erosion passes, unvisited
\* pixels of the working mask, seeds to grow, rects to extract.
LoopRemaining ==
    CASE pc = "erode" -> erosionPasses - pass
      [] pc = "label" -> Cardinality(currentMap \ visited)
      [] pc = "grow" -> Len(seeds) + 1 - seedIdx
      [] pc = "extract" -> Len(finalRects) + 1 - rectIdx
      [] OTHER -> 0

\* The stages still ahead, then what is left of the current loop.
Remaining ==
    LET ahead == CASE pc = "start" -> 5
                   [] pc = "erode" -> 4
                   [] pc = "label" -> 3
                   [] pc = "grow" -> 2
                   [] pc = "extract" -> 1
                   [] OTHER -> 0
    IN  ahead * (width * height + erosionPasses + 2) + LoopRemaining

\* C13: processStickerSheet terminates on a finite image: each fill pushes
\* every pixel at most once and so ends within width * height pops, every
\* step of the call strictly lowers a bounded natural number, and the call
\* stops nowhere but at its return or throw.
C13_Terminates ==
    /\ []C13_PushedOnce
    /\ [](Remaining \in 0 .. 6 * (width * height + erosionPasses + 2))
    /\ [][Remaining' < Remaining]_vars
    /\ [](pc # "done" => LoopRemaining >= 0 /\ Remaining > 0)

C13_Witness ==
    /\ Returned
    /\ Len(regions) = 2
    /\ \E k \in DOMAIN regions : Cardinality(regions[k]) > 300

\* What naming must leave alone: the collection, in order, with each
\* segment's id, dataUrl, originalX, originalY, width and height.
Frozen(segs) ==
    [j \in DOMAIN segs |->
        <<segs[j].id, segs[j].dataUrl, segs[j].originalX, segs[j].originalY,
          segs[j].width, segs[j].height>>]

\* A step of the naming flow: a scheduled runAiNaming starts, or one of its
\* generateStickerName promises settles.
NamingStep ==
    /\ Len(namingRuns') = Len(namingRuns)
    /\ namingRuns' # namingRuns

\* C14: a step of the naming flow changes no segment's id, dataUrl,
\* originalX, originalY, width or height, and neither the membership nor
\* the order of the collection; only name and isNaming may differ.
C14_NamingFrame ==
    [][NamingStep => Frozen(segments') = Frozen(segments)]_vars

\* A name has arrived for the second of four segments while the first is
\* still being named.
C14_Witness ==
    /\ Len(segments) = 4
    /\ segments[1].isNaming /\ segments[1].name = "sticker_1"
    /\ ~segments[2].isNaming /\ segments[2].name = "happy_cat"
    /\ Frozen(segments) = Frozen(calls[Len(calls)].detected)

\* C15: once handleReset has run, the segment collection is empty and
\* stays empty until a new upload is started, whatever processFile call or
\* naming completion was in flight at the reset.
C15_ResetEmpties ==
    resetClean => segments = <<>>

\* C16: once built, the original mask is never written: through erosion,
\* labeling, merging, region growing and extraction every entry of
\* binaryMap keeps the value it was created with (1 iff the pixel is not
\* background), the morphology being done on the working mask.
C16_OriginalMaskKept ==
    (pc # "start" /\ result # "threw") =>
        binaryMap = {i \in DOMAIN data : ~SaidBackground(data[i], 240)}

C16_Witness ==
    /\ Returned
    /\ binaryMap # {}
    /\ currentMap # {}
    /\ currentMap # binaryMap
    /\ globalClaimed = binaryMap

\* C17: isBackground(r, g, b, a, threshold) is true exactly when a < 20 or
\* r, g and b are all strictly above threshold, and the binary map holds a
\* pixel (value 1) iff the pixel is not background at the mask threshold.
C17_BackgroundExact ==
    /\ probe.out # "none" =>
          (probe.out = "true" <=>
              (probe.a < 20 \/ (probe.r > probe.threshold /\ probe.g > probe.threshold
                                  /\ probe.b > probe.threshold)))
    /\ pc = "erode" =>
          \A i \in DOMAIN data : i \in binaryMap <=> ~SaidBackground(data[i], 240)

\* Alpha exactly 20 and red exactly at the threshold: not background, and
\* in the mask.
C17_Witness ==
    /\ probe.a = 20 /\ probe.r = 240 /\ probe.g = 241 /\ probe.b = 255
    /\ probe.threshold = 240
    /\ probe.out = "false"
    /\ pc = "erode"
    /\ binaryMap = {0}

\* Pixel (x, y) is foreground in map m.
At(m, x, y, w) == (y * w + x) \in m

\* C18: after an erosion pass an interior pixel is foreground iff, before
\* the pass, it and its left, right, upper and lower neighbours all were:
\* the pass reads the previous generation only.
C18_GenerationByGeneration ==
    [][pass' = pass + 1 =>
          \A x \in 1 .. (width - 2), y \in 1 .. (height - 2) :
              At(currentMap', x, y, width) <=>
                  /\ At(currentMap, x, y, width)
                  /\ At(currentMap, x - 1, y, width) /\ At(currentMap, x + 1, y, width)
                  /\ At(currentMap, x, y - 1, width) /\ At(currentMap, x, y + 1, width)]_vars

\* Three passes done on two bridged squares: the bridge is gone, both
\* cores are left.
C18_Witness ==
    /\ pass = 3
    /\ sheet.kind = "bridge2"
    /\ At(binaryMap, 14, 7, width) /\ ~At(currentMap, 14, 7, width)
    /\ At(currentMap, 7, 7, width)
    /\ ~At(currentMap, 3, 7, width)

\* Row 0, the last row, column 0 and the last column.
EdgePixels(w, h) ==
    {i \in 0 .. (w * h - 1) :
        i % w = 0 \/ i % w = w - 1 \/ i \div w = 0 \/ i \div w = h - 1}

\* C19: after any number of erosion passes every edge pixel of the working
\* mask has the value it had before erosion started (that of the original
\* mask, of which the working mask was a copy).
C19_EdgesUnchanged ==
    (pc = "erode" \/ (pc \in {"label", "grow", "extract", "done"} /\ result # "threw")) =>
        \A i \in EdgePixels(width, height) : i \in currentMap <=> i \in binaryMap

\* The gap of two intervals: max(0, a.min - b.max, b.min - a.max).
AxisGap(aMin, aMax, bMin, bMax) ==
    IF aMin - bMax > 0 THEN aMin - bMax
    ELSE IF bMin - aMax > 0 THEN bMin - aMax
    ELSE 0

\* C20: in the seed list handed to the region grower no two seeds have
\* both their X gap and their Y gap below the merge threshold.
C20_SeedsAtFixedPoint ==
    (pc \in {"grow", "extract", "done"} /\ result # "threw") =>
        \A i, j \in DOMAIN seeds :
            i < j =>
                ~(/\ AxisGap(seeds[i].minX, seeds[i].maxX, seeds[j].minX, seeds[j].maxX) < 30
                  /\ AxisGap(seeds[i].minY, seeds[i].maxY, seeds[j].minY, seeds[j].maxY) < 30)

\* C21: every seed handed to the region grower has its bounding-box centre
\* on a foreground pixel of the original mask, so that no seed is skipped
\* and every seed yields one final region.
C21_NoSeedSkipped ==
    (pc \in {"grow", "extract", "done"} /\ result # "threw") =>
        /\ \A s \in DOMAIN seeds : StartIdx(seeds[s], width) \in binaryMap
        /\ seedIdx > Len(seeds) => Len(regions) = Len(seeds)

\* Two pixels that differ by at most 1 in x and at most 1 in y.
Touching(p, q, w) ==
    /\ (p % w) - (q % w) \in {-1, 0, 1}
    /\ (p \div w) - (q \div w) \in {-1, 0, 1}

\* The pixels of `allowed` that a chain of touching pixels of `allowed`
\* links to the frontier.
RECURSIVE Chained(_, _, _, _)
Chained(frontier, seen, allowed, w) ==
    LET next == {q \in allowed \ seen : \E p \in frontier : Touching(p, q, w)}
    IN  IF next = {} THEN seen
        ELSE Chained(next, seen \cup next, allowed, w)

\* C22: every pixel a region claims is linked to the region's start pixel
\* by a chain of original-mask foreground pixels in which consecutive
\* pixels differ by at most 1 in x and at most 1 in y, the first and last
\* columns included.
C22_EightConnected ==
    [][(pc = "grow" /\ Len(regions') = Len(regions) + 1) =>
          LET start == StartIdx(seeds[seedIdx], width)
          IN  regions'[Len(regions')] \subseteq
                  Chained({start}, {start}, binaryMap, width)]_vars

\* A rect with inclusive bounds that lies inside the source.
RectInSource(rect, sw, sh) ==
    /\ 0 <= rect.minX /\ rect.minX <= rect.maxX /\ rect.maxX <= sw - 1
    /\ 0 <= rect.minY /\ rect.minY <= rect.maxY /\ rect.maxY <= sh - 1

\* C23: for a rect inside the source, the crop extraction takes covers
\* every source pixel (x, y) with minX <= x <= maxX and minY <= y <= maxY.
C23_InclusiveCrop ==
    (pc = "returned" /\ RectInSource(cropRect, width, height)) =>
        \A x \in cropRect.minX .. cropRect.maxX, y \in cropRect.minY .. cropRect.maxY :
            /\ rawXOf(cropRect) <= x /\ x < rawXOf(cropRect) + rawWOf(cropRect, width)
            /\ rawYOf(cropRect) <= y /\ y < rawYOf(cropRect) + rawHOf(cropRect, height)

\* The source pixel behind pixel k of a segment's artwork (row-major over
\* the tight content box, whose corner is originalX, originalY).
ArtSource(seg, src, sw, k) ==
    LET cw == seg.width - 2 * 16 - 2 * 6
    IN  src[(seg.originalY + (k \div cw)) * sw + seg.originalX + (k % cw)]

\* The crop's pixels that a background removal at `strict` leaves
\* non-transparent, as source coordinates.
LeftOpaque(src, sw, sh, rect, strict) ==
    {xy \in CropColumns(rect, sw) \X CropRows(rect, sh) :
        ~SaidBackground(src[xy[2] * sw + xy[1]], strict)}

BackgroundRemovedAt(strict) ==
    (pc = "returned" /\ cropResult # NoSegment) =>
        LET seg == cropResult[1]
            left == LeftOpaque(data, width, height, cropRect, strict)
        IN  /\ \A k \in DOMAIN seg.dataUrl :
                  SaidBackground(ArtSource(seg, data, width, k), strict) =>
                      seg.dataUrl[k][4] = 0
            /\ left # {}
            /\ Footprint(seg) = [minX |-> SetMin({xy[1] : xy \in left}),
                                 maxX |-> SetMax({xy[1] : xy \in left}),
                                 minY |-> SetMin({xy[2] : xy \in left}),
                                 maxY |-> SetMax({xy[2] : xy \in left})]

\* C24: in a returned sticker every pixel that is background at the strict
\* threshold (alpha < 20, or r, g and b all above it) has alpha 0, and the
\* tight content box is the bounding box of exactly the crop's pixels that
\* the removal leaves non-transparent.
C24_BackgroundRemoved == BackgroundRemovedAt(250)

\* C25: the final rects are extracted top-left to bottom-right: of two
\* rects the earlier one has the smaller minY, or the same minY and a minX
\* that is not larger, whatever the size of the image.
C25_TopLeftOrder ==
    pc = "extract" =>
        \A i, j \in DOMAIN finalRects :
            i < j =>
                \/ finalRects[i].minY < finalRects[j].minY
                \/ /\ finalRects[i].minY = finalRects[j].minY
                   /\ finalRects[i].minX <= finalRects[j].minX

\* C26: whenever the status is at stage complete, no segment of the
\* collection is still being named, however the initial naming run and
\* the runs started by manual crops interleave.
C26_CompleteMeansNamed ==
    status.stage = "complete" =>
        \A j \in DOMAIN segments : ~segments[j].isNaming

\* C27: handleDownloadAll writes every segment into the archive under a
\* file name no other segment has, whatever the segments' names (repeated
\* names, names ending in _1, _2, ...), and the archive has as many entries
\* as there are segments.
C27_DistinctFileNames ==
    isZipping =>
        /\ Len(archive) = Len(segments)
        /\ \A j \in DOMAIN segments :
              \E k \in DOMAIN archive :
                  /\ archive[k].id = segments[j].id
                  /\ \A m \in DOMAIN archive : m # k => archive[m].file # archive[k].file

\* Names cat, cat_1, cat: the third segment finds both cat and cat_1 taken.
C27_Witness ==
    /\ isZipping
    /\ Len(segments) = 3
    /\ segments[1].name = "cat" /\ segments[2].name = "cat_1" /\ segments[3].name = "cat"
    /\ archive[3].file = "cat_2.png"

\* The request failed before any answer text was read: network failure,
\* a status that is not OK, a body that is not JSON.
RequestFailed(r) ==
    r.fetch = "rejected" \/ ~r.ok \/ ~r.isJson \/ r.body.kind = "invalid"

\* The JSON value the answer text of r stands for, if any.
AnswerJson(r) == {j \in JsonTexts : j.text = Trim(StripFences(r.body.text))}

\* C28: generateStickerName never rejects.  Whatever the request meets, it
\* resolves to a value that `||` takes as present (never the empty string,
\* null or undefined); to "sticker" on a network
\* failure, a status that is not OK, a body that is not JSON, an empty
\* text and a JSON without a filename; to the first word of a text that is
\* not JSON.  The value is a string unless the JSON's filename is not one.
C28_NeverRejects ==
    /\ request.pc # "rejected"
    /\ request.pc = "resolved" =>
          LET r == request.response
              json == AnswerJson(r)
          IN  /\ Truthy(request.name)
              /\ RequestFailed(r) => request.name = JsString("sticker")
              /\ (~RequestFailed(r) /\ Trim(StripFences(r.body.text)) = <<>>) =>
                    request.name = JsString("sticker")
              /\ (~RequestFailed(r) /\ \E j \in json : j.value.type # "null" /\ j.filename = <<>>) =>
                    request.name = JsString("sticker")
              /\ (~RequestFailed(r) /\ json = {} /\ Trim(StripFences(r.body.text)) # <<>>) =>
                    /\ request.name.type = "string"
                    /\ request.name.str # ""
              /\ request.name.type # "string" =>
                    \E j \in json : j.filename # <<>> /\ j.filename[1].type # "string"

\* A response with a status that is not OK, answered with "sticker".
C28_Witness ==
    /\ request.pc = "resolved"
    /\ request.response.fetch = "resolved"
    /\ ~request.response.ok
    /\ request.name = JsString("sticker")

\* The ids segments may carry, and "segment id is in the collection and
\* is being named".
SegmentIds == 1 .. (MaxItems + MaxCrops)

BeingNamed(id) ==
    \E j \in DOMAIN segments : segments[j].id = id /\ segments[j].isNaming

\* The requests of a run that are in flight: never more than 3, all of
\* the batch the run is at, every earlier item answered.
BatchesInSequence ==
    \A r \in DOMAIN namingRuns :
        LET run == namingRuns[r]
        IN  /\ Cardinality(run.pending) <= 3
            /\ \A k \in run.pending : run.i < k /\ k <= run.i + 3
            /\ run.pc = "batch" => run.completed >= run.i

\* C29: when every naming request returns in the end, a segment that
\* runAiNaming has flagged isNaming and that stays in the collection has
\* its flag cleared in the end; the requests of one runAiNaming call go
\* out in batches, one batch after the other, with at most 3 in flight.
C29_NamingEnds ==
    /\ []BatchesInSequence
    /\ \A id \in SegmentIds : BeingNamed(id) ~> ~BeingNamed(id)

\* A run over 4 segments is at its second batch: the fourth request is in
\* flight, the first three segments are named.
C29_Witness ==
    \E r \in DOMAIN namingRuns :
        /\ Len(namingRuns[r].items) = 4
        /\ namingRuns[r].i = 3
        /\ namingRuns[r].pending = {4}
        /\ Len(segments) = 4
        /\ \A j \in 1 .. 3 : ~segments[j].isNaming /\ segments[j].name = "happy_cat"
        /\ segments[4].isNaming

\* C30: after every erosion pass the working mask is a subset of the
\* original mask, and so is the set of pixels the labeler has put into
\* seeds.
C30_ErodedWithinOriginal ==
    (pc \in {"erode", "label", "grow", "extract"} \/ Returned) =>
        /\ currentMap \subseteq binaryMap
        /\ visited \subseteq currentMap

\* All passes done on a sheet with a core left, the labeler at work.
C30_Witness ==
    /\ pc = "label"
    /\ pass = erosionPasses
    /\ visited # {}
    /\ currentMap # binaryMap

====
